---------------------------- MODULE Spec2Model ----------------------------
(***************************************************************************)
(* Model of the operational layer of ifsttar-licit/ISTTT2019:              *)
(*   src/Operational/platoon-closed-2nd.py  (2nd-order platoon model)      *)
(*   src/Operational/platoon-closed-3rd.py  (3rd-order, lagged actuator)   *)
(*   src/Notebooks/symuviapy/contfunc.py    (compute_control, notebook)    *)
(*                                                                         *)
(* Numbers.  The program computes in float64.  Here every real quantity is *)
(* an integer count of 1/SCALE units (fixed point, rounded to nearest);    *)
(* the program's constants are kept as exact rationals NUM/DEN.            *)
(*                                                                         *)
(* Sizes.  Platoon length, horizon and simulation length are bounds of the *)
(* model (NVeh, H, nSamples).  The iteration limits of compute_control and *)
(* its blow-up threshold are lowered in proportion (N_ITER, N_BLOCK,       *)
(* N_ABS, BLOWUP and their contfunc counterparts); the value the source    *)
(* gives stands beside each.                                               *)
(*                                                                         *)
(* Memory.  numpy arrays are objects that the program reads and writes     *)
(* through references and views.  mem maps an array's name to its content; *)
(* a view is [base, off]; the solver reads and writes its state arrays     *)
(* only through the views initialize_mpc hands back.                       *)
(***************************************************************************)
EXTENDS Integers, Sequences, FiniteSets, TLC

---------------------------------------------------------------------------
(* Bounds of the model                                                     *)

\* resolution of the fixed-point numbers: 1 unit = 1/SCALE
SCALE == 10000
\* platoon length (N = 8 in the source)
NVeh == 2
\* samples of the MPC horizon (H = 50 in the source)
H == 4
\* samples of the simulation (nSamples = 900 in the source)
nSamples == 4
\* draws of the step iterator, operational solvers (N = 10000 in the source)
N_ITER == 6
\* iterations per relaxation block (n >= 5000 in the source)
N_BLOCK == 3
\* absolute iteration ceiling (n > 20000 in the source)
N_ABS == 12
\* draws of the step iterator, contfunc.compute_control (N = 100001)
N_ITER_CF == 7
\* iterations per relaxation block, contfunc.compute_control (n >= 500)
N_BLOCK_CF == 2
\* absolute iteration ceiling, contfunc.compute_control (n > 10000)
N_ABS_CF == 5
\* blow-up threshold of the error, in real units (10e5 in the source)
BLOWUP == 100
\* largest magnitude squared exactly by Norm
NORM_CAP == 10000

---------------------------------------------------------------------------
(* Program constants (exact rationals)                                     *)

L_AVG_NUM == 19
L_AVG_DEN == 4
T_LAG_NUM == 1
T_LAG_DEN == 5
C_N1_NUM == 1
C_N1_DEN == 10
C_N2 == 1
C_N3_NUM == 1
C_N3_DEN == 2
U_MAX_NUM == 3
U_MIN_NUM == -3
U_DEN == 2
DT_NUM == 1
DT_DEN == 10
V_P_INT == 20
C_NUM == 2400
C_DEN == 3600
\* ALPHA and its decrement and floor, in hundredths
ALPHA_DEN == 100
ALPHA_INIT == 2
ALPHA_INIT_CF == 1
ALPHA_STEP == 1
ALPHA_FLOOR == 1
EPS_NUM == 1
EPS_DEN == 10
ERROR_INIT == 100
BSUCCESS_INIT == 2
\* contfunc: KC = 0.16 = 4/25 (CAV max density); 1/KC is the jam spacing
KC_NUM == 4
KC_DEN == 25

Veh == 0 .. (NVeh - 1)
Rows == 0 .. (nSamples - 1)

---------------------------------------------------------------------------
(* Fixed-point arithmetic                                                  *)

Abs(x) == IF x < 0 THEN -x ELSE x

Sgn(x) == IF x < 0 THEN -1 ELSE 1

Min2(a, b) == IF a < b THEN a ELSE b

Max2(a, b) == IF a < b THEN b ELSE a

\* f itself.  The comparison makes TLC tabulate a function once instead of
\* evaluating its defining expression again at every application.
Tabulate(f) == IF f = f THEN f ELSE f

\* a / b rounded to the nearest integer (half away from zero), b # 0
RoundDiv(a, b) ==
    Sgn(a) * Sgn(b) * ((Abs(a) + (Abs(b) \div 2)) \div Abs(b))

\* x * num / den
Q(x, num, den) == RoundDiv(x * num, den)

\* the fixed-point number of the rational num/den
Fix(num, den) == RoundDiv(num * SCALE, den)

\* product of two fixed-point numbers; the larger factor is split so that
\* no intermediate product leaves the 32-bit range
MulFix(a, b) ==
    LET big == Max2(Abs(a), Abs(b))
        sml == Min2(Abs(a), Abs(b))
        q == big \div SCALE
        r == big % SCALE
    IN  Sgn(a) * Sgn(b) * (q * sml + RoundDiv(r * sml, SCALE))

\* quotient of two fixed-point numbers, b # 0
DivFix(a, b) ==
    LET q == Abs(a) \div Abs(b)
        r == Abs(a) % Abs(b)
    IN  Sgn(a) * Sgn(b) * (q * SCALE + RoundDiv(r * SCALE, Abs(b)))

RECURSIVE IsqrtIter(_, _, _)
IsqrtIter(x, lo, hi) ==
    IF hi - lo <= 1 THEN lo
    ELSE LET mid == (lo + hi) \div 2
         IN  IF mid * mid <= x THEN IsqrtIter(x, mid, hi)
             ELSE IsqrtIter(x, lo, mid)

\* floor of the square root, 0 <= x < 2^31
Isqrt(x) == IsqrtIter(x, 0, 46341)

---------------------------------------------------------------------------
(* Derived quantities (module level of the scripts)                        *)

L_AVG == Fix(L_AVG_NUM, L_AVG_DEN)

T_LAG == Fix(T_LAG_NUM, T_LAG_DEN)

U_MAX == Fix(U_MAX_NUM, U_DEN)

U_MIN == Fix(U_MIN_NUM, U_DEN)

DT == Fix(DT_NUM, DT_DEN)

V_P == V_P_INT * SCALE

EPS == Fix(EPS_NUM, EPS_DEN)

\* K = C / V_P;  S_D = 1/K - L_AVG;  G_T = S_D / V_P
S_D == RoundDiv(V_P_INT * C_DEN * SCALE, C_NUM) - L_AVG

G_T == RoundDiv(S_D, V_P_INT)

\* 1/KC, the jam spacing contfunc.compute_control uses in sref
INV_KC == Fix(KC_DEN, KC_NUM)

Kinds == {"2nd", "3rd", "cf"}

\* N = 10000 / N = 100001: the length of range(N) behind the step iterator
IterCeil(kind) == IF kind = "cf" THEN N_ITER_CF ELSE N_ITER

\* a variant of Block: the block of contfunc in every solver
BlockCF(kind) == N_BLOCK_CF

\* the block size in "if n >= 5000" / "if n >= 500"
Block(kind) == IF kind = "cf" THEN N_BLOCK_CF ELSE N_BLOCK

\* the ceiling in "if n > 20000" / "if n > 10000"
AbsCeil(kind) == IF kind = "cf" THEN N_ABS_CF ELSE N_ABS

\* ALPHA = 0.02 / ALPHA = 0.01
Alpha0(kind) == IF kind = "cf" THEN ALPHA_INIT_CF ELSE ALPHA_INIT

\* a variant of JamSpacing: the jam spacing of contfunc in every solver
JamSpacingKC(kind) == INV_KC

\* "+ L_AVG" / "+ 1/KC" in sref
JamSpacing(kind) == IF kind = "cf" THEN INV_KC ELSE L_AVG

\* "2 * C_N2 * dv" / "C2 * dv"
DvWeight(kind) == IF kind = "cf" THEN C_N2 ELSE 2 * C_N2

---------------------------------------------------------------------------
(* Arrays and views                                                        *)

ZeroRow == Tabulate([j \in Veh |-> 0])

\* np.zeros((r, N))
Zeros(r) == Tabulate([i \in 0 .. (r - 1) |-> ZeroRow])

\* the arrays closed_loop owns, and the ones initialize_mpc creates
HarnessArrays == {"mS", "mV", "mDV", "mA", "mX", "mU"}

SolverArrays == {"m_S", "m_V", "m_DV", "m_A"}

\* row j of a view
RowOf(m, view, j) == m[view.base][view.off + j]

\* view[j] = row  (a view never reaches past the end of its base array)
WriteRow(m, view, j, row) ==
    IF (view.off + j) \in DOMAIN m[view.base]
    THEN Tabulate([m EXCEPT ![view.base][view.off + j] = Tabulate(row)])
    ELSE m

\* Python's index of a row: a negative index counts from the end
PyIndex(idx, len) == IF idx < 0 THEN idx + len ELSE idx

\* np.clip(x, lo, hi)
clip(x, lo, hi) == Min2(Max2(x, lo), hi)

RECURSIVE SumSq(_, _, _)
SumSq(M, cells, k) ==
    IF cells = {} THEN 0
    ELSE LET c == CHOOSE c \in cells : TRUE
             x == Abs(M[c[1]][c[2]]) \div k
         IN  x * x + SumSq(M, cells \ {c}, k)

RECURSIVE MaxAbs(_, _)
MaxAbs(M, cells) ==
    IF cells = {} THEN 0
    ELSE LET c == CHOOSE c \in cells : TRUE
         IN  Max2(Abs(M[c[1]][c[2]]), MaxAbs(M, cells \ {c}))

\* np.linalg.norm(M): the Frobenius norm.  Entries above NORM_CAP are
\* scaled down before squaring and the root scaled back.
Norm(M) ==
    LET cells == (DOMAIN M) \X Veh
        k == (MaxAbs(M, cells) \div NORM_CAP) + 1
    IN  k * Isqrt(SumSq(M, cells, k))

\* elementwise (1 - ALPHA) * L + ALPHA * l, ALPHA in hundredths
Relax(L, l, alpha) ==
    Tabulate([i \in DOMAIN L |->
        [j \in Veh |->
            RoundDiv((ALPHA_DEN - alpha) * L[i][j] + alpha * l[i][j], ALPHA_DEN)]])

MatDiff(L, l) == Tabulate([i \in DOMAIN L |-> [j \in Veh |-> L[i][j] - l[i][j]]])

---------------------------------------------------------------------------
(* The solver: initialize_mpc, forward_evolution, backward_evolution       *)

\* what an argument of compute_control refers to: a row of an array of
\* closed_loop (a view), or a row computed for the call (a value)
Deref(m, op) == IF op.kind = "view" THEN m[op.base][op.off] ELSE op.val

\* a variant of initialize_mpc: no copy is made; the state arrays are the
\* rows of the caller's arrays from the measured row on
initialize_mpc_views(m, ops, kind, rows) ==
    LET own(name) == [base |-> name, off |-> 0, len |-> rows]
        fresh(row) == [Zeros(rows) EXCEPT ![0] = row]
        held(op, name) == IF op.kind = "view"
                          THEN [base |-> op.base, off |-> op.off, len |-> rows]
                          ELSE own(name)
    IN  [mem |-> [m EXCEPT !["m_S"] = fresh(Deref(m, ops.S)),
                           !["m_V"] = fresh(Deref(m, ops.V)),
                           !["m_DV"] = fresh(Deref(m, ops.DV)),
                           !["m_A"] = IF kind = "3rd"
                                      THEN fresh(Deref(m, ops.DV))
                                      ELSE Zeros(rows)],
         X |-> [S |-> held(ops.S, "m_S"), V |-> held(ops.V, "m_V"),
                DV |-> held(ops.DV, "m_DV"), A |-> own("m_A")],
         LS |-> Zeros(rows), LV |-> Zeros(rows), LA |-> Zeros(rows)]

\* initialize_mpc(mS0, mV0, mDV0[, mA0]): fresh zero arrays, row 0 of the
\* state arrays copied from the arguments.  The 3rd-order script fills
\* m_A[0] from mDV0.  For "cf" (initial_setup_mpc and the assignments that
\* follow it in contfunc.compute_control) the arrays have the rows of h_ref.
initialize_mpc(m, ops, kind, rows) ==
    LET own(name) == [base |-> name, off |-> 0, len |-> rows]
        fresh(row) == [Zeros(rows) EXCEPT ![0] = row]
    IN  [mem |-> [m EXCEPT !["m_S"] = fresh(Deref(m, ops.S)),
                           !["m_V"] = fresh(Deref(m, ops.V)),
                           !["m_DV"] = fresh(Deref(m, ops.DV)),
                           !["m_A"] = IF kind = "3rd"
                                      THEN fresh(Deref(m, ops.DV))
                                      ELSE Zeros(rows)],
         X |-> [S |-> own("m_S"), V |-> own("m_V"),
                DV |-> own("m_DV"), A |-> own("m_A")],
         LS |-> Zeros(rows), LV |-> Zeros(rows), LA |-> Zeros(rows)]

\* a variant of LeaderDiff: the follower's value less the leader's
LeaderDiffReversed(u) == Tabulate([j \in Veh |-> IF j = 0 THEN 0 ELSE u[j] - u[j - 1]])

\* a variant of LeaderDiff: the root is driven by its own value, as if it
\* followed a leader at rest
LeaderDiffRoot(u) == Tabulate([j \in Veh |-> IF j = 0 THEN 0 - u[0] ELSE u[j - 1] - u[j]])

\* np.hstack((0, u[0:-1] - u[1:])): the difference to the leader's value;
\* vehicle 0 is its own leader.  contfunc computes U[:, ldr_pos] - U with
\* the frozen leadership 0 -> 0, j -> j-1, which is the same vector.
LeaderDiff(u) == Tabulate([j \in Veh |-> IF j = 0 THEN 0 ELSE u[j - 1] - u[j]])

\* the assignments of one pass of the forward loop, in the order of the
\* source.  Each reads the arrays as the assignment before it left them.

\* DV[i+1] = DV[i] + DT * du   (3rd order: DT * da, da from A[i])
write_DV(m, X, u, kind, i) ==
    WriteRow(m, X.DV, i + 1,
             [j \in Veh |->
                RowOf(m, X.DV, i)[j]
                + Q(LeaderDiff(IF kind = "3rd" THEN RowOf(m, X.A, i) ELSE u)[j],
                    DT_NUM, DT_DEN)])

\* S[i+1] = S[i] + DT * DV[i]
write_S(m, X, i) ==
    WriteRow(m, X.S, i + 1,
             [j \in Veh |-> RowOf(m, X.S, i)[j] + Q(RowOf(m, X.DV, i)[j], DT_NUM, DT_DEN)])

\* V[i+1] = V[i] + DT * u   (3rd order: DT * A[i])
write_V(m, X, u, kind, i) ==
    WriteRow(m, X.V, i + 1,
             [j \in Veh |->
                RowOf(m, X.V, i)[j]
                + Q(IF kind = "3rd" THEN RowOf(m, X.A, i)[j] ELSE u[j], DT_NUM, DT_DEN)])

\* A[i+1] = (1 - DT/lag) * A[i] + DT/lag * u   (3rd order only)
write_A(m, X, u, kind, lag, i) ==
    IF kind = "3rd"
    THEN WriteRow(m, X.A, i + 1,
                  [j \in Veh |->
                     MulFix(SCALE - DivFix(DT, lag), RowOf(m, X.A, i)[j])
                     + MulFix(DivFix(DT, lag), u[j])])
    ELSE m

\* the body of "if i < len(S) - 1"
forward_row(m, X, u, kind, lag, i) ==
    write_A(write_V(write_S(write_DV(m, X, u, kind, i), X, i), X, u, kind, i),
            X, u, kind, lag, i)

RECURSIVE forward_from(_, _, _, _, _, _)
forward_from(m, X, U, kind, lag, i) ==
    IF i \notin DOMAIN U THEN m
    ELSE forward_from(IF i < X.S.len - 1
                      THEN forward_row(m, X, U[i], kind, lag, i)
                      ELSE m,
                      X, U, kind, lag, i + 1)

\* forward_evolution(X, U[, lag]): the state arrays are updated in place
forward_evolution(m, X, U, kind, lag) == forward_from(m, X, U, kind, lag, 0)

\* the body of "if i > 0" in backward_evolution for horizon row i and
\* reference row tg
backward_row(l, m, X, tg, kind, lag, i) ==
    LET s == RowOf(m, X.S, i)
        v == RowOf(m, X.V, i)
        dv == RowOf(m, X.DV, i)
        e == Tabulate([j \in Veh |-> s[j] - (MulFix(v[j], tg[j]) + JamSpacing(kind))])
        inner == Tabulate([j \in Veh |->
                     - Q(MulFix(e[j], tg[j]), 2 * C_N1_NUM, C_N1_DEN)
                     - DvWeight(kind) * dv[j] - l.ls[i][j]])
        lv1 == [l.lv EXCEPT ![i - 1] =
                   [j \in Veh |-> l.lv[i][j] + Q(inner[j], DT_NUM, DT_DEN)]]
        ls1 == [l.ls EXCEPT ![i - 1] =
                   [j \in Veh |-> l.ls[i][j]
                        + Q(Q(e[j], 2 * C_N1_NUM, C_N1_DEN), DT_NUM, DT_DEN)]]
        la1 == IF kind = "3rd"
               THEN [l.la EXCEPT ![i - 1] =
                       [j \in Veh |-> l.la[i][j]
                            + Q(l.lv[i][j] - DivFix(l.la[i][j], lag), DT_NUM, DT_DEN)]]
               ELSE l.la
    IN  Tabulate([ls |-> ls1, lv |-> lv1, la |-> la1])

\* number of rows of an array
NRows(M) == Cardinality(DOMAIN M)

\* the reference row that reversedEnumerate pairs with the k-th state row
\* from the end (k = 0 is the last): the arrays are flipped and zipped, so
\* it is the k-th reference row from the end
PairedRef(Ref, k) == Ref[NRows(Ref) - 1 - k]

RECURSIVE backward_from(_, _, _, _, _, _, _)
backward_from(l, m, X, Ref, kind, lag, k) ==
    IF k >= Min2(X.S.len, NRows(Ref)) THEN l
    ELSE LET i == X.S.len - 1 - k
         IN  backward_from(IF i > 0
                           THEN backward_row(l, m, X, PairedRef(Ref, k), kind, lag, i)
                           ELSE l,
                           m, X, Ref, kind, lag, k + 1)

\* a variant of backward_evolution: the spacing costate starts from a
\* terminal value of one unit instead of zero
backward_evolution_terminal(m, X, Ref, kind, lag) ==
    backward_from([ls |-> [Zeros(X.S.len) EXCEPT ![X.S.len - 1] = [j \in Veh |-> SCALE]],
                   lv |-> Zeros(X.S.len), la |-> Zeros(X.S.len)],
                  m, X, Ref, kind, lag, 0)

\* backward_evolution(X, Ref[, lag]): fresh zero costates, filled from the
\* last horizon row down.
backward_evolution(m, X, Ref, kind, lag) ==
    backward_from([ls |-> Zeros(X.S.len), lv |-> Zeros(X.S.len), la |-> Zeros(X.S.len)],
                  m, X, Ref, kind, lag, 0)

---------------------------------------------------------------------------
(* compute_control                                                         *)

\* -Lv / (2 * C_N3)  and  -La / (2 * C_N3 * lag)
RawControl(L, kind, lag) ==
    IF kind = "3rd"
    THEN DivFix(-L, Q(lag, 2 * C_N3_NUM, C_N3_DEN))
    ELSE Q(-L, C_N3_DEN, 2 * C_N3_NUM)

\* a variant of ClipControl: the control is not clipped
ClipControlLoose(x) == x

\* U_star = np.clip(U_star, U_MIN, U_MAX)
ClipControl(x) == clip(x, U_MIN, U_MAX)

\* the locals of compute_control after initialize_mpc and the assignments
\* before the while loop
compute_control_enter(m, ops, Ref, lag, kind) ==
    LET rows == IF kind = "cf" THEN NRows(Ref) ELSE H
        init == initialize_mpc(m, ops, kind, rows)
    IN  [mem |-> init.mem,
         sol |-> [kind |-> kind, X |-> init.X, Ref |-> Ref, lag |-> lag,
                  LS |-> init.LS, LV |-> init.LV, LA |-> init.LA,
                  U_star |-> Zeros(0), ALPHA |-> Alpha0(kind),
                  error |-> ERROR_INIT * SCALE, bSuccess |-> BSUCCESS_INIT,
                  passes |-> 0, step |-> 0, n |-> 0, n_prev |-> 0,
                  raised |-> "no"]]

\* the condition of the while loop
LoopCondition(s) == s.error > EPS /\ s.bSuccess > 0

\* a variant of Diverged: the blow-up test is missing
DivergedNever(err) == FALSE

\* "if error > 10e5"
Diverged(err) == err > BLOWUP * SCALE

\* a variant of StopIterationHandler: the handler leaves bSuccess alone
StopIterationIgnored(s) == s

\* "except StopIteration: ... bSuccess = 0"
StopIterationHandler(s) == [s EXCEPT !.bSuccess = 0]

\* U_star = np.clip(-Lv / (2 * C_N3), U_MIN, U_MAX)   (3rd order: from La)
candidate_control(s) ==
    Tabulate([r \in DOMAIN s.LV |->
        [j \in Veh |->
            ClipControl(RawControl(IF s.kind = "3rd" THEN s.LA[r][j] ELSE s.LV[r][j],
                                   s.kind, s.lag))]])

\* L = (1 - ALPHA) * L + ALPHA * l for every costate; the pass of the loop
\* and the value drawn from the step iterator are counted, the control kept
relax_costates(s, l) ==
    [s EXCEPT !.passes = @ + 1,
              !.step = @ + 1,
              !.U_star = candidate_control(s),
              !.LS = Relax(@, l.ls, s.ALPHA),
              !.LV = Relax(@, l.lv, s.ALPHA),
              !.LA = IF s.kind = "3rd" THEN Relax(@, l.la, s.ALPHA) ELSE @]

\* error = the sum of the norms of L - l, L the relaxed costates
measure_error(s, l) ==
    [s EXCEPT !.error =
        Norm(MatDiff(s.LS, l.ls)) + Norm(MatDiff(s.LV, l.lv))
        + (IF s.kind = "3rd" THEN Norm(MatDiff(s.LA, l.la)) ELSE 0)]

\* "Routine for changing convergence parameter" and the success test.
\* raised names the AssertionError that leaves the function, if any.
convergence_routine(m, s) ==
    IF Diverged(s.error)
    THEN [mem |-> m, sol |-> [s EXCEPT !.raised = "Algorithm does not converge"]]
    ELSE IF s.n >= Block(s.kind) /\ s.n > AbsCeil(s.kind)
    THEN [mem |-> m,
          sol |-> [s EXCEPT !.ALPHA = Max2(@ - ALPHA_STEP, ALPHA_FLOOR),
                            !.raised = "Maximum iterations reached by the algorithm"]]
    ELSE IF s.n >= Block(s.kind)
    THEN [mem |-> m,
          sol |-> [s EXCEPT !.ALPHA = Max2(@ - ALPHA_STEP, ALPHA_FLOOR),
                            !.n_prev = s.n + @,
                            !.n = 1,
                            !.bSuccess = IF s.error <= EPS THEN 0 ELSE @]]
    ELSE [mem |-> m,
          sol |-> [s EXCEPT !.n = @ + 1,
                            !.bSuccess = IF s.error <= EPS THEN 0 ELSE @]]

\* the costates of the backward pass are relaxed into L, the error taken
update_costates(m, s, l) ==
    convergence_routine(m, Tabulate(measure_error(relax_costates(s, l), l)))

\* the backward pass on the arrays the forward pass has left
backward_pass(m, s) ==
    update_costates(m, s, backward_evolution(m, s.X, s.Ref, s.kind, s.lag))

\* the body of the try block after next(step) has returned: a new control,
\* the forward pass from it, and the rest on its result
compute_control_body(m, s) ==
    backward_pass(forward_evolution(m, s.X, candidate_control(s), s.kind, s.lag), s)

\* a variant of compute_control_return: the last horizon row is returned
compute_control_return_last(s) == s.U_star[H - 1]

\* "return U_star[0]" of the operational solvers
compute_control_return(s) == s.U_star[0]

\* "return (S, V, DV, U_star, DU, n)" of contfunc.compute_control: the
\* whole control matrix
compute_control_return_cf(s) == s.U_star

---------------------------------------------------------------------------
(* State                                                                   *)

VARIABLES
    ev,        \* dEvent[0]: the scenario (kind names the script that runs it)
    mRef,      \* the reference matrix create_ref returns
    mem,       \* the arrays: mS, mV, mDV, mA, mX, mU and the solver's m_S ..
    i,         \* the index of the for loop of closed_loop
    pc,        \* closed_loop: "loop", "solve", "done", "raised";
               \* a call on its own: "call", "solve", "returned", "raised";
               \* the module level: "params", "shift";
               \* solve_tactical_problem: "snapshot", "alloc"
    aX,        \* the arguments of the running compute_control call
    real_lag,  \* the lag of the plant at this step (3rd order)
    sol,       \* the locals of the running compute_control call
    trace,     \* the U_star of every iteration of the running call
    ret,       \* what the last compute_control call returned
    hist,      \* the calls that have returned: their trace and result
    wave,      \* compute_parameters: its arguments and what it returned
    tac        \* the locals of the running solve_tactical_problem call

vars == <<ev, mRef, mem, i, pc, aX, real_lag, sol, trace, ret, hist, wave, tac>>

View(base, off) == [kind |-> "view", base |-> base, off |-> off, val |-> ZeroRow]

Val(row) == [kind |-> "val", base |-> "", off |-> 0, val |-> row]

---------------------------------------------------------------------------
(* closed_loop: the scenario and the initial condition                     *)

\* the time gaps an event asks for: a slight, a double and two large
\* openings
TargetGaps == {G_T + Fix(1, 50), 2 * G_T, 5 * SCALE, 11 * SCALE}

\* iYieldTruck = range(1, N): the trucks an event may name
YieldTrucks == 1 .. (NVeh - 1)

\* create_ref(dEvent, Teq): Teq everywhere, and in the column of the
\* event's truck the samples of a sigmoid from T_0 to T_X.  The samples
\* are T_0 before row k, the mean at row k and T_X after it.
create_ref(id, T_0, T_X, k) ==
    [r \in Rows |->
        [j \in Veh |->
            IF j # id THEN G_T
            ELSE IF r < k THEN T_0
            ELSE IF r = k THEN RoundDiv(T_0 + T_X, 2)
            ELSE T_X]]

\* the values np.random.rand(N) is drawn from: no noise, or half the
\* weight on the sensor of the last vehicle
NoiseVecs == {ZeroRow, [j \in Veh |-> IF j = NVeh - 1 THEN SCALE \div 2 ELSE 0]}

\* the values np.random.rand(1)[0] is drawn from, in 1/SCALE
LagDraws == {0, SCALE \div 2}

NoScenario ==
    [ns |-> FALSE, w |-> 0, delay |-> FALSE, d |-> 0,
     lag |-> T_LAG, mdlt |-> 0, t_lag_v |-> 0]

\* dEvent[0] of the 2nd-order script: noise on the spacing sensor or not
Events2nd ==
    {NoScenario} \cup {[NoScenario EXCEPT !.ns = TRUE, !.w = w] : w \in {1, 2000}}

\* dEvent[0] of the 3rd-order script: noise, delay, lag known to the
\* controller, constant and random mismatch of the plant's lag (a random
\* part below the lag, and one above it)
Events3rd ==
    {[NoScenario EXCEPT !.ns = n, !.w = 1] : n \in BOOLEAN}
    \cup {[NoScenario EXCEPT !.delay = TRUE, !.d = d] : d \in -1 .. 2}
    \cup {[NoScenario EXCEPT !.ns = TRUE, !.w = 1, !.delay = TRUE, !.d = 1]}
    \cup {[NoScenario EXCEPT !.lag = Fix(1, 2)]}
    \cup {[NoScenario EXCEPT !.mdlt = Fix(1, 5)]}
    \cup {[NoScenario EXCEPT !.t_lag_v = v] : v \in {Fix(3, 20), Fix(1, 4)}}

\* what np.empty_like leaves in the rows of mX that are never assigned
Uninitialized == {0, -1}

\* set_initial_condition and the first lines of closed_loop
set_initial_condition(junk) ==
    [a \in HarnessArrays \cup SolverArrays |->
        IF a = "mS" THEN [Zeros(nSamples) EXCEPT ![0] = [j \in Veh |-> S_D + L_AVG]]
        ELSE IF a = "mV" THEN [Zeros(nSamples) EXCEPT ![0] = [j \in Veh |-> V_P]]
        ELSE IF a = "mX"
             THEN [r \in Rows |->
                     [j \in Veh |->
                        IF r = 0 THEN (NVeh - 1 - j) * (S_D + L_AVG) ELSE junk]]
        ELSE IF a \in HarnessArrays THEN Zeros(nSamples)
        ELSE Zeros(H)]

IdleSol ==
    [kind |-> "2nd", X |-> [S |-> [base |-> "m_S", off |-> 0, len |-> H],
                             V |-> [base |-> "m_V", off |-> 0, len |-> H],
                             DV |-> [base |-> "m_DV", off |-> 0, len |-> H],
                             A |-> [base |-> "m_A", off |-> 0, len |-> H]],
     Ref |-> Zeros(0), lag |-> T_LAG,
     LS |-> Zeros(H), LV |-> Zeros(H), LA |-> Zeros(H),
     U_star |-> Zeros(0), ALPHA |-> ALPHA_INIT,
     error |-> ERROR_INIT * SCALE, bSuccess |-> BSUCCESS_INIT,
     passes |-> 0, step |-> 0, n |-> 0, n_prev |-> 0, raised |-> "no"]

\* the values of wave and tac while the operational layer runs
NoWave == [g_x |-> 0, c |-> 0, out |-> << >>, TAU |-> 0, RTE |-> 0, raised |-> "no"]

NoTactical == [lVehDataFormat |-> << >>, raised |-> "no"]

NoArgs == [S |-> Val(ZeroRow), V |-> Val(ZeroRow), DV |-> Val(ZeroRow), A |-> Val(ZeroRow)]

Init ==
    /\ \E kind \in {"2nd", "3rd"} :
        \E e \in (IF kind = "2nd" THEN Events2nd ELSE Events3rd) :
            ev = [kind |-> kind, ns |-> e.ns, w |-> e.w, delay |-> e.delay,
                  d |-> e.d, lag |-> e.lag, mdlt |-> e.mdlt, t_lag_v |-> e.t_lag_v]
    /\ \E id \in YieldTrucks, T_X \in TargetGaps, k \in 0 .. nSamples :
        mRef = create_ref(id, G_T, T_X, k)
    /\ \E junk \in Uninitialized : mem = set_initial_condition(junk)
    /\ i = 0
    /\ pc = "loop"
    /\ aX = NoArgs
    /\ real_lag = T_LAG
    /\ sol = IdleSol
    /\ trace = << >>
    /\ ret = ZeroRow
    /\ hist = << >>
    /\ wave = NoWave
    /\ tac = NoTactical

---------------------------------------------------------------------------
(* closed_loop: one step of the for loop                                   *)

\* mRefW = mRef[i:min(i+H, nSamples), :]
Window(ref, at) ==
    [r \in 0 .. (Min2(at + H, nSamples) - at - 1) |-> ref[at + r]]

\* d = max(dEvent[0]['d'], 0)
DelayOf(e) == Max2(e.d, 0)

\* aX: rows i of the trajectories; with noise the spacing row is a new
\* array; with delay (3rd order) the rows i - d, indexed as Python does
Measure(m, e, at, rand) ==
    LET plain == [S |-> View("mS", at), V |-> View("mV", at),
                  DV |-> View("mDV", at), A |-> View("mA", at)]
        noisy == [plain EXCEPT
                    !.S = Val([j \in Veh |-> m["mS"][at][j] + e.w * rand[j]])]
        row == PyIndex(at - DelayOf(e), nSamples)
        late == [S |-> View("mS", row), V |-> View("mV", row),
                 DV |-> View("mDV", row), A |-> View("mA", row)]
    IN  IF e.kind = "3rd" /\ e.delay THEN late
        ELSE IF e.ns THEN noisy
        ELSE plain

\* real_lag = control_lag + par_unc_const + (rand - 1) * par_unc_var
RealLag(e, rand1) == e.lag + e.mdlt + MulFix(rand1 - SCALE, e.t_lag_v)

\* the loop body up to the call of compute_control
HarnessCall ==
    /\ pc = "loop"
    /\ i < nSamples - 2
    /\ \E rand \in (IF ev.ns THEN NoiseVecs ELSE {ZeroRow}) :
        \E rand1 \in (IF ev.kind = "3rd" /\ ev.t_lag_v # 0 THEN LagDraws ELSE {0}) :
            LET args == Measure(mem, ev, i, rand)
                call == compute_control_enter(mem, args, Window(mRef, i), ev.lag, ev.kind)
            IN  /\ aX' = args
                /\ real_lag' = (IF ev.kind = "3rd" THEN RealLag(ev, rand1) ELSE real_lag)
                /\ mem' = call.mem
                /\ sol' = call.sol
    /\ trace' = << >>
    /\ pc' = "solve"
    /\ UNCHANGED <<ev, mRef, i, ret, hist, wave, tac>>

\* one pass of the while loop of compute_control: next(step) returns and
\* the body runs; an AssertionError leaves compute_control and closed_loop
SolverIterate ==
    /\ pc = "solve"
    /\ LoopCondition(sol)
    /\ sol.step < IterCeil(sol.kind)
    /\ \E out \in {compute_control_body(mem, sol)} :
           /\ mem' = out.mem
           /\ sol' = out.sol
           /\ trace' = Append(trace, out.sol.U_star)
           /\ pc' = (IF out.sol.raised # "no" THEN "raised" ELSE "solve")
    /\ UNCHANGED <<ev, mRef, i, aX, real_lag, ret, hist, wave, tac>>

\* one pass of the while loop in which next(step) raises StopIteration
SolverStopIteration ==
    /\ pc = "solve"
    /\ LoopCondition(sol)
    /\ sol.step >= IterCeil(sol.kind)
    /\ sol' = StopIterationHandler([sol EXCEPT !.passes = @ + 1])
    /\ UNCHANGED <<ev, mRef, mem, i, pc, aX, real_lag, trace, ret, hist, wave, tac>>

\* a variant of PlantStep: the step advances the speeds of the row at
\* itself as well
PlantStepInPlace(m, e, at, aU, rlag) ==
    LET third == e.kind = "3rd"
        drive == IF third THEN LeaderDiff(m["mA"][at]) ELSE LeaderDiff(aU)
        r == DivFix(DT, rlag)
    IN  [m EXCEPT
            !["mV"][at] =
                [j \in Veh |-> m["mV"][at][j]
                    + Q(IF third THEN m["mA"][at][j] ELSE aU[j], DT_NUM, DT_DEN)],
            !["mS"][at + 1] =
                [j \in Veh |-> m["mS"][at][j] + Q(m["mDV"][at][j], DT_NUM, DT_DEN)],
            !["mV"][at + 1] =
                [j \in Veh |-> m["mV"][at][j]
                    + Q(IF third THEN m["mA"][at][j] ELSE aU[j], DT_NUM, DT_DEN)],
            !["mDV"][at + 1] =
                [j \in Veh |-> m["mDV"][at][j] + Q(drive[j], DT_NUM, DT_DEN)],
            !["mA"][at + 1] =
                IF third
                THEN [j \in Veh |-> MulFix(SCALE - r, m["mA"][at][j]) + MulFix(r, aU[j])]
                ELSE m["mA"][at + 1],
            !["mU"][at] = aU,
            !["mX"][at + 1] =
                [j \in Veh |-> m["mX"][at][j] + Q(m["mV"][at][j], DT_NUM, DT_DEN)
                    + Q(aU[j], DT_NUM * DT_NUM, 2 * DT_DEN * DT_DEN)]]

\* the plant rows i + 1 and the control row i, from rows i and aU
PlantStep(m, e, at, aU, rlag) ==
    LET third == e.kind = "3rd"
        drive == IF third THEN LeaderDiff(m["mA"][at]) ELSE LeaderDiff(aU)
        r == DivFix(DT, rlag)
    IN  [m EXCEPT
            !["mS"][at + 1] =
                [j \in Veh |-> m["mS"][at][j] + Q(m["mDV"][at][j], DT_NUM, DT_DEN)],
            !["mV"][at + 1] =
                [j \in Veh |-> m["mV"][at][j]
                    + Q(IF third THEN m["mA"][at][j] ELSE aU[j], DT_NUM, DT_DEN)],
            !["mDV"][at + 1] =
                [j \in Veh |-> m["mDV"][at][j] + Q(drive[j], DT_NUM, DT_DEN)],
            !["mA"][at + 1] =
                IF third
                THEN [j \in Veh |-> MulFix(SCALE - r, m["mA"][at][j]) + MulFix(r, aU[j])]
                ELSE m["mA"][at + 1],
            !["mU"][at] = aU,
            !["mX"][at + 1] =
                [j \in Veh |-> m["mX"][at][j] + Q(m["mV"][at][j], DT_NUM, DT_DEN)
                    + Q(aU[j], DT_NUM * DT_NUM, 2 * DT_DEN * DT_DEN)]]

\* compute_control returns U_star[0]; closed_loop advances the plant
HarnessApply ==
    /\ pc = "solve"
    /\ ev.kind \in {"2nd", "3rd"}
    /\ ~ LoopCondition(sol)
    /\ LET aU == compute_control_return(sol)
       IN  /\ ret' = aU
           /\ mem' = PlantStep(mem, ev, i, aU, real_lag)
    /\ i' = i + 1
    /\ pc' = "loop"
    /\ UNCHANGED <<ev, mRef, aX, real_lag, sol, trace, hist, wave, tac>>

\* the remaining passes of the for loop do nothing; closed_loop returns
HarnessReturn ==
    /\ pc = "loop"
    /\ i >= nSamples - 2
    /\ pc' = "done"
    /\ UNCHANGED <<ev, mRef, mem, i, aX, real_lag, sol, trace, ret, hist, wave, tac>>

Next ==
    \/ HarnessCall
    \/ SolverIterate
    \/ SolverStopIteration
    \/ HarnessApply
    \/ HarnessReturn

Spec == Init /\ [][Next]_vars

---------------------------------------------------------------------------
(* compute_control on its own: one input, called twice                     *)

\* speeds, deviations of the spacing from v * tg + L_AVG, relative
\* speed with acceleration, of the measured state
SpeedDraws == {V_P, V_P \div 2}

SpacingDraws == {0, SCALE, 30 * SCALE}

MotionDraws == {<<0, 0>>, <<SCALE, SCALE \div 2>>}

\* time gaps of a reference window that is the same in every row
GapDraws == {G_T, 2 * G_T, 5 * SCALE}

\* lags the controller may be told (3rd order)
LagParams == {T_LAG, Fix(1, 2)}

\* mX0: every vehicle at speed v; the last vehicle off its desired
\* spacing by ds, closing at dv with acceleration a
MeasuredState(v, tg, ds, dva) ==
    LET last == NVeh - 1
    IN  [S |-> Val([j \in Veh |-> MulFix(v, tg) + L_AVG
                                   + (IF j = last THEN ds ELSE 0)]),
         V |-> Val([j \in Veh |-> v]),
         DV |-> Val([j \in Veh |-> IF j = last THEN dva[1] ELSE 0]),
         A |-> Val([j \in Veh |-> IF j = last THEN dva[2] ELSE 0])]

\* mRef: rows windows of the time gap tg
FlatWindow(rows, tg) == [r \in 0 .. (rows - 1) |-> [j \in Veh |-> tg]]

SolverInit ==
    /\ \E kind \in Kinds :
        \E lag \in (IF kind = "3rd" THEN LagParams ELSE {T_LAG}) :
        \E v \in SpeedDraws, tg \in GapDraws, ds \in SpacingDraws, dva \in MotionDraws :
        \E rows \in {H - 1, H} :
            /\ ev = [kind |-> kind, ns |-> FALSE, w |-> 0, delay |-> FALSE,
                     d |-> 0, lag |-> lag, mdlt |-> 0, t_lag_v |-> 0]
            /\ aX = MeasuredState(v, tg, ds, dva)
            /\ mRef = FlatWindow(rows, tg)
    /\ mem = [a \in HarnessArrays \cup SolverArrays |-> Zeros(H)]
    /\ i = 0
    /\ pc = "call"
    /\ real_lag = T_LAG
    /\ sol = IdleSol
    /\ trace = << >>
    /\ ret = ZeroRow
    /\ hist = << >>
    /\ wave = NoWave
    /\ tac = NoTactical

\* a variant of SolverCall: the costates of the call before are kept
SolverCallWarm ==
    /\ pc = "call"
    /\ LET call == compute_control_enter(mem, aX, mRef, ev.lag, ev.kind)
       IN  /\ mem' = call.mem
           /\ sol' = IF hist = << >> THEN call.sol
                     ELSE [call.sol EXCEPT !.LS = sol.LS, !.LV = sol.LV, !.LA = sol.LA]
    /\ trace' = << >>
    /\ pc' = "solve"
    /\ UNCHANGED <<ev, mRef, i, aX, real_lag, ret, hist, wave, tac>>

\* compute_control(mX0, mRef[, lag]) is entered
SolverCall ==
    /\ pc = "call"
    /\ LET call == compute_control_enter(mem, aX, mRef, ev.lag, ev.kind)
       IN  /\ mem' = call.mem
           /\ sol' = call.sol
    /\ trace' = << >>
    /\ pc' = "solve"
    /\ UNCHANGED <<ev, mRef, i, aX, real_lag, ret, hist, wave, tac>>

\* the while loop has ended and compute_control returns; the same call is
\* made once more
SolverReturn ==
    /\ pc = "solve"
    /\ ~ LoopCondition(sol)
    /\ LET out == IF sol.kind = "cf" THEN compute_control_return_cf(sol)
                  ELSE compute_control_return(sol)
       IN  /\ ret' = out
           /\ hist' = Append(hist, [trace |-> trace, ret |-> out])
    /\ pc' = (IF hist = << >> THEN "call" ELSE "returned")
    /\ UNCHANGED <<ev, mRef, mem, i, aX, real_lag, sol, trace, wave, tac>>

SolverNext ==
    \/ SolverCall
    \/ SolverIterate
    \/ SolverStopIteration
    \/ SolverReturn

SolverSpec == SolverInit /\ [][SolverNext]_vars

---------------------------------------------------------------------------
(* The module level of the operational scripts: compute_parameters         *)

\* G_X = 1.5
G_X_NUM == 3
G_X_DEN == 2

\* quotient of two fixed-point numbers whose divisor may be as large as a
\* speed: the fraction is taken in two steps, two decimals at a time
DivFixWide(a, b) ==
    LET q == Abs(a) \div Abs(b)
        r == Abs(a) % Abs(b)
        q1 == (r * 100) \div Abs(b)
        r1 == (r * 100) % Abs(b)
    IN  Sgn(a) * Sgn(b)
        * (q * SCALE + q1 * (SCALE \div 100) + RoundDiv(r1 * (SCALE \div 100), Abs(b)))

\* product of two fixed-point numbers that may both be large: both factors
\* are split
MulFixWide(a, b) ==
    Sgn(a) * Sgn(b)
    * ((Abs(a) \div SCALE) * (Abs(b) \div SCALE) * SCALE
       + (Abs(a) \div SCALE) * (Abs(b) % SCALE)
       + (Abs(a) % SCALE) * (Abs(b) \div SCALE)
       + RoundDiv((Abs(a) % SCALE) * (Abs(b) % SCALE), SCALE))

\* compute_parameters(g_x, c): s_x = L_AVG + g_x, k_x = 1 / s_x,
\* k_c = c / V_P, w = c / (k_x - k_c).  A division by zero raises
\* ZeroDivisionError; every other input returns (s_x, k_x, k_c, w).
compute_parameters(g_x, c) ==
    IF L_AVG + g_x = 0
    THEN [raised |-> "ZeroDivisionError", out |-> << >>]
    ELSE IF DivFix(SCALE, L_AVG + g_x) - RoundDiv(c, V_P_INT) = 0
    THEN [raised |-> "ZeroDivisionError", out |-> << >>]
    ELSE [raised |-> "no",
          out |-> <<L_AVG + g_x,
                    DivFix(SCALE, L_AVG + g_x),
                    RoundDiv(c, V_P_INT),
                    DivFix(c, DivFix(SCALE, L_AVG + g_x) - RoundDiv(c, V_P_INT))>>]

\* TAU = 1 / (K_X * W)
time_shift(K_X, W_X) == DivFix(SCALE, MulFix(K_X, W_X))

\* RTE = TAU * (V_P + W) / V_P
time_headway(t, W_X) == DivFixWide(MulFix(t, V_P + W_X), V_P)

\* the jam spacing offsets and the flows compute_parameters is called with:
\* the values of the scripts (G_X, C) and others around them, among them
\* - L_AVG, for which s_x = 0
GapOffsets ==
    {-L_AVG, - 10 * SCALE, 0, Fix(G_X_NUM, G_X_DEN), 5 * SCALE, 10 * SCALE,
     Fix(101, 4), 30 * SCALE, 50 * SCALE, 100 * SCALE}

Flows == {0, Fix(1, 3), Fix(C_NUM, C_DEN), SCALE, 2 * SCALE, - Fix(1, 3)}

\* the operational layer before it has run
IdleOperational ==
    /\ ev = [kind |-> "2nd", ns |-> FALSE, w |-> 0, delay |-> FALSE,
             d |-> 0, lag |-> T_LAG, mdlt |-> 0, t_lag_v |-> 0]
    /\ mRef = Zeros(0)
    /\ mem = [a \in HarnessArrays \cup SolverArrays |-> Zeros(0)]
    /\ i = 0
    /\ aX = NoArgs
    /\ real_lag = T_LAG
    /\ sol = IdleSol
    /\ trace = << >>
    /\ ret = ZeroRow
    /\ hist = << >>

ParamInit ==
    /\ IdleOperational
    /\ pc = "params"
    /\ \E g_x \in GapOffsets, c \in Flows : wave = [NoWave EXCEPT !.g_x = g_x, !.c = c]
    /\ tac = NoTactical

\* S_X, K_X, K_C, W = compute_parameters(G_X, C)
ComputeParameters ==
    /\ pc = "params"
    /\ \E r \in {compute_parameters(wave.g_x, wave.c)} :
        /\ wave' = [wave EXCEPT !.out = r.out, !.raised = r.raised]
        /\ pc' = (IF r.raised # "no" THEN "raised" ELSE "shift")
    /\ UNCHANGED <<ev, mRef, mem, i, aX, real_lag, sol, trace, ret, hist, tac>>

\* TAU = 1/(K_X*W);  RTE = TAU * (V_P+W) / V_P
TimeShift ==
    /\ pc = "shift"
    /\ IF MulFix(wave.out[2], wave.out[4]) = 0
       THEN /\ wave' = [wave EXCEPT !.raised = "ZeroDivisionError"]
            /\ pc' = "raised"
       ELSE /\ \E t \in {time_shift(wave.out[2], wave.out[4])} :
                wave' = [wave EXCEPT !.TAU = t, !.RTE = time_headway(t, wave.out[4])]
            /\ pc' = "done"
    /\ UNCHANGED <<ev, mRef, mem, i, aX, real_lag, sol, trace, ret, hist, tac>>

ParamNext ==
    \/ ComputeParameters
    \/ TimeShift

ParamSpec == ParamInit /\ [][ParamNext]_vars

---------------------------------------------------------------------------
(* contfunc.solve_tactical_problem: the tactical layer                     *)

\* vehicles of a snapshot, and the positions a snapshot draws them from
MaxSnapshot == 4
NSlots == 6

\* VF = 25.0, W = 6.25, E = 25.0 * 0.3, KH = 0.0896 = 56/625
VF_INT == 25
W_NUM == 25
W_DEN == 4
E_NUM == 15
E_DEN == 2
KH_NUM == 56
KH_DEN == 625
\* SAFETY = 0 in solve_tactical_problem, X_m = 0.0 in find_anticipation_time
SAFETY == 0
X_M == 0

VF == VF_INT * SCALE

W == Fix(W_NUM, W_DEN)

\* GCAV = 1/(KC*W), GHDV = 1/(KH*W): the time headways
GCAV == Fix(KC_DEN * W_DEN, KC_NUM * W_NUM)

GHDV == Fix(KH_DEN * W_DEN, KH_NUM * W_NUM)

VehTypes == {"CAV", "HDV"}

\* dveh_twy and dveh_dwy: time headway and jam spacing by vehicle type
dveh_twy(type) == IF type = "CAV" THEN GCAV ELSE GHDV

dveh_dwy(type) == IF type = "CAV" THEN INV_KC ELSE Fix(KH_DEN, KH_NUM)

\* find_projection(gi, VF, gm, W): the point <<X, T>> with
\* X + W * T = Xm + W * Tm  and  X - VF * T = x - VF * t
find_projection(gi, vf, g_m, w_x) ==
    LET T == DivFixWide((g_m[1] + MulFixWide(w_x, g_m[2])) - (gi[1] - MulFixWide(vf, gi[2])),
                        w_x + vf)
    IN  <<g_m[1] + MulFixWide(w_x, g_m[2]) - MulFixWide(w_x, T), T>>

\* find_anticipation_time(veh, d_tau): <<T_a, T_y>> with T_a = T3 + T4 and
\* T_y = T1 + T2 - T3
find_anticipation_time(veh, d_tau) ==
    LET T_x == veh.tau + d_tau
        T_0 == veh.tau
        T1 == veh.ti + Q(X_M * SCALE - veh.abs, 1, VF_INT)
        T2 == Q(T_x - T_0,
                (VF_INT * W_DEN + W_NUM) * (E_NUM - VF_INT * E_DEN),
                W_DEN * VF_INT * E_NUM)
        T3 == Fix(E_NUM * U_DEN * (U_MIN_NUM - U_MAX_NUM),
                  2 * E_DEN * U_MAX_NUM * U_MIN_NUM)
        T4 == Q(T_x - T_0, (VF_INT * W_DEN + W_NUM) * E_DEN, W_DEN * E_NUM)
    IN  <<T3 + T4, T1 + T2 - T3>>

\* -x['abs'] / x['vit']: the first entry of a tuple of lArrivalTimes
ArrivalTime(x) == DivFixWide(- x.abs, x.vit)

\* vehLeader = min(lArrivalTimes, key=lambda t: t[0]): the first vehicle of
\* the list with the smallest arrival time
vehLeader(lVeh) ==
    CHOOSE k \in DOMAIN lVeh : \A m \in DOMAIN lVeh :
        \/ ArrivalTime(lVeh[k]) < ArrivalTime(lVeh[m])
        \/ ArrivalTime(lVeh[k]) = ArrivalTime(lVeh[m]) /\ k <= m

\* gm = (vehLeader[2], vehLeader[3]) = (0.0, ti - abs/vit)
gm(x) == <<0, x.ti - DivFixWide(x.abs, x.vit)>>

\* one dictionary of lProj.  upd tells whether updatelist has stored the
\* keys pg_eq .. t_yld in it.
project(x, g_m) ==
    [pg |-> find_projection(<<x.abs, x.ti>>, x.vit, g_m, W),
     id |-> x.id,
     bound |-> (x.id = 0 \/ x.type = "HDV"),
     tau |-> dveh_twy(x.type),
     d |-> dveh_dwy(x.type),
     type |-> x.type,
     abs |-> x.abs,
     ti |-> x.ti,
     upd |-> FALSE,
     pg_eq |-> <<0, 0>>, d_tau |-> 0, arr_t |-> 0, tau_f |-> 0,
     t_ant |-> 0, t_yld |-> 0]

lProj(lVeh, g_m) == Tabulate([k \in DOMAIN lVeh |-> project(lVeh[k], g_m)])

\* sorted(lProj, key=lambda t: t['pg'][1]): the dictionaries, named by their
\* place in lProj, in the order of their projected times; the sort is stable
lProjSort(P) ==
    [p \in DOMAIN P |->
        CHOOSE a \in DOMAIN P :
            Cardinality({b \in DOMAIN P :
                            \/ P[b].pg[2] < P[a].pg[2]
                            \/ P[b].pg[2] = P[a].pg[2] /\ b < a}) = p - 1]

lBound(P) == SelectSeq(lProjSort(P), LAMBDA a : P[a].bound)

lVehAlloc(P) == SelectSeq(lProjSort(P), LAMBDA a : ~ P[a].bound)

\* deltaT: the projected time of each boundary but the first, less that of
\* the boundary before it
deltaT(P, B) == [k \in 1 .. (Len(B) - 1) |-> P[B[k + 1]].pg[2] - P[B[k]].pg[2]]

\* a variant of nveh: the vehicle that closes the segment is not counted
nveh_open(delta, tau) == Max2((delta - (tau + SAFETY * GHDV)) \div GCAV, 0)

\* nveh = max((delta-(tau+SAFETY*GHDV))//GCAV+1, 0.0)
nveh(delta, tau) == Max2(((delta - (tau + SAFETY * GHDV)) \div GCAV) + 1, 0)

RECURSIVE SumSeq(_)
SumSeq(s) == IF s = << >> THEN 0 ELSE Head(s) + SumSeq(Tail(s))

\* lNumVehAlloc: with several boundaries the capacity of every segment
\* between two of them, then len(lVehAlloc) - sum(lNumVehAlloc); with one
\* boundary or none the single entry len(lVehAlloc)
lNumVehAlloc(P, B, A) ==
    IF Len(B) > 1
    THEN Append([k \in 1 .. (Len(B) - 1) |-> nveh(deltaT(P, B)[k], P[B[k]].tau)],
                Len(A)
                - SumSeq([k \in 1 .. (Len(B) - 1) |-> nveh(deltaT(P, B)[k], P[B[k]].tau)]))
    ELSE <<Len(A)>>

\* updatelist(veh, [updt_dict]): the keys of updt_dict are stored in the
\* dictionary itself, which every list that holds it sees
updatelist(veh, updt_dict) ==
    [veh EXCEPT !.upd = TRUE,
                !.pg_eq = updt_dict.pg_eq, !.d_tau = updt_dict.d_tau,
                !.arr_t = updt_dict.arr_t, !.tau_f = updt_dict.tau_f,
                !.t_ant = updt_dict.t_ant, !.t_yld = updt_dict.t_yld]

\* updt_dict for the vehicle x with equilibrium point pg_eq; tau is the
\* time headway of the boundary of the segment
updt_dict(x, pg_eq, g_m, tau) ==
    [pg_eq |-> pg_eq,
     d_tau |-> pg_eq[2] - x.pg[2],
     arr_t |-> find_projection(pg_eq, VF, g_m, 0)[2],
     tau_f |-> tau + (pg_eq[2] - x.pg[2]),
     t_ant |-> find_anticipation_time(x, pg_eq[2] - x.pg[2])[1],
     t_yld |-> find_anticipation_time(x, pg_eq[2] - x.pg[2])[2]]

\* np.round(x, 1)
round1(x) == RoundDiv(x, SCALE \div 10) * (SCALE \div 10)

\* d_ev: by rounded yield time the tuple (id, tau, tau_f, t_ant) of the
\* last CAV of lProj with that key
d_ev(P) ==
    LET cavs == {k \in DOMAIN P : P[k].type = "CAV"}
    IN  [t \in {round1(P[k].t_yld) : k \in cavs} |->
            LET last == CHOOSE k \in cavs :
                            /\ round1(P[k].t_yld) = t
                            /\ \A m \in cavs : round1(P[m].t_yld) = t => m <= k
            IN  <<P[last].id, P[last].tau, P[last].tau_f, P[last].t_ant>>]

\* the locals of solve_tactical_problem before its first line
tactical_enter(lVeh) ==
    [lVehDataFormat |-> lVeh, gm |-> <<0, 0>>, lProj |-> << >>,
     lBound |-> << >>, lVehAlloc |-> << >>, lNumVehAlloc |-> << >>,
     newProjSort |-> << >>, veh2Alloc |-> 0, addVeh |-> 0, zipped |-> 0,
     veh |-> 0, number |-> 0, cap |-> 0, shift_x |-> 0, shift_t |-> 0,
     d_ev |-> << >>, raised |-> "no"]

\* the lines up to the allocation loop
tactical_partition(t, P) ==
    [t EXCEPT !.gm = gm(t.lVehDataFormat[vehLeader(t.lVehDataFormat)]),
              !.lProj = P,
              !.lBound = lBound(P),
              !.lVehAlloc = lVehAlloc(P),
              !.lNumVehAlloc = lNumVehAlloc(P, lBound(P), lVehAlloc(P))]

\* the body of the for loop before its while loop, for the boundary b and
\* the count number
tactical_boundary(t, b, number) ==
    [t EXCEPT !.zipped = @ + 1,
              !.veh = b,
              !.number = number,
              !.cap = number,
              !.lProj[b] = updatelist(@, updt_dict(@, @.pg, t.gm, @.tau)),
              !.shift_x = t.lProj[b].d,
              !.shift_t = t.lProj[b].tau,
              !.newProjSort = Append(@, b),
              !.addVeh = @ + 1]

\* pg_ref, then pg_eq = (pg_ref[0] - shift_x, pg_ref[1] + shift_t)
next_equilibrium(t) ==
    LET pg_ref == IF t.cap = t.number THEN t.lProj[t.veh].pg
                  ELSE t.lProj[t.newProjSort[t.addVeh]].pg_eq
    IN  <<pg_ref[1] - t.shift_x, pg_ref[2] + t.shift_t>>

\* the body of the while loop for the vehicle cav that next(veh2Alloc)
\* returned
tactical_allocate(t, cav) ==
    [t EXCEPT !.veh2Alloc = @ + 1,
              !.lProj[cav] =
                  updatelist(@, updt_dict(@, next_equilibrium(t), t.gm, t.lProj[t.veh].tau)),
              !.shift_x = t.lProj[t.veh].d,
              !.shift_t = t.lProj[t.veh].tau,
              !.newProjSort = Append(@, cav),
              !.addVeh = @ + 1,
              !.cap = @ - 1]

\* the snapshots: vehicles at some of the positions 20 m apart upstream of
\* the merge, listed from the nearest on and numbered from first on, all
\* at the speed clock[1] and seen at the time clock[2]
Slots == 1 .. NSlots

\* the speed of the vehicles and the time of the snapshot
SnapshotClocks == {<<VF, 0>>, <<20 * SCALE, 30 * SCALE>>}

Snapshot(P, type, first, clock) ==
    [k \in 1 .. Cardinality(P) |->
        [id |-> first + k - 1,
         type |-> type[k],
         abs |-> - 20 * SCALE
                  * (CHOOSE s \in P : Cardinality({u \in P : u < s}) = k - 1),
         vit |-> clock[1],
         ti |-> clock[2]]]

TacticalInit ==
    /\ IdleOperational
    /\ pc = "snapshot"
    /\ wave = NoWave
    /\ \E P \in SUBSET Slots, first \in {0, 1}, clock \in SnapshotClocks :
        /\ Cardinality(P) \in 1 .. MaxSnapshot
        /\ \E type \in [1 .. Cardinality(P) -> VehTypes] :
            tac = tactical_enter(Snapshot(P, type, first, clock))

\* solve_tactical_problem is entered and runs up to its allocation loop
TacticalPartition ==
    /\ pc = "snapshot"
    /\ \E g_m \in {gm(tac.lVehDataFormat[vehLeader(tac.lVehDataFormat)])} :
        \E P \in {lProj(tac.lVehDataFormat, g_m)} :
            tac' = tactical_partition(tac, P)
    /\ pc' = "alloc"
    /\ UNCHANGED <<ev, mRef, mem, i, aX, real_lag, sol, trace, ret, hist, wave>>

\* the for loop takes the next pair of zip(lBound, lNumVehAlloc)
TacticalBoundary ==
    /\ pc = "alloc"
    /\ tac.cap <= 0
    /\ tac.zipped < Min2(Len(tac.lBound), Len(tac.lNumVehAlloc))
    /\ tac' = tactical_boundary(tac, tac.lBound[tac.zipped + 1],
                                tac.lNumVehAlloc[tac.zipped + 1])
    /\ UNCHANGED <<ev, mRef, mem, i, pc, aX, real_lag, sol, trace, ret, hist, wave>>

\* one pass of the while loop: next(veh2Alloc) returns a CAV
TacticalAllocate ==
    /\ pc = "alloc"
    /\ tac.cap > 0
    /\ tac.veh2Alloc < Len(tac.lVehAlloc)
    /\ tac' = tactical_allocate(tac, tac.lVehAlloc[tac.veh2Alloc + 1])
    /\ UNCHANGED <<ev, mRef, mem, i, pc, aX, real_lag, sol, trace, ret, hist, wave>>

\* one pass of the while loop: veh2Alloc is used up and next raises
\* StopIteration, which leaves solve_tactical_problem
TacticalStopIteration ==
    /\ pc = "alloc"
    /\ tac.cap > 0
    /\ tac.veh2Alloc >= Len(tac.lVehAlloc)
    /\ tac' = [tac EXCEPT !.raised = "StopIteration"]
    /\ pc' = "raised"
    /\ UNCHANGED <<ev, mRef, mem, i, aX, real_lag, sol, trace, ret, hist, wave>>

\* the loops are over; d_ev is built and returned
TacticalReturn ==
    /\ pc = "alloc"
    /\ tac.cap <= 0
    /\ tac.zipped >= Min2(Len(tac.lBound), Len(tac.lNumVehAlloc))
    /\ \A k \in DOMAIN tac.lProj : tac.lProj[k].type = "CAV" => tac.lProj[k].upd
    /\ tac' = [tac EXCEPT !.d_ev = d_ev(tac.lProj)]
    /\ pc' = "returned"
    /\ UNCHANGED <<ev, mRef, mem, i, aX, real_lag, sol, trace, ret, hist, wave>>

\* the loops are over; a CAV of lProj has no key 't_yld' and building d_ev
\* raises KeyError
TacticalKeyError ==
    /\ pc = "alloc"
    /\ tac.cap <= 0
    /\ tac.zipped >= Min2(Len(tac.lBound), Len(tac.lNumVehAlloc))
    /\ \E k \in DOMAIN tac.lProj : tac.lProj[k].type = "CAV" /\ ~ tac.lProj[k].upd
    /\ tac' = [tac EXCEPT !.raised = "KeyError"]
    /\ pc' = "raised"
    /\ UNCHANGED <<ev, mRef, mem, i, aX, real_lag, sol, trace, ret, hist, wave>>

TacticalNext ==
    \/ TacticalPartition
    \/ TacticalBoundary
    \/ TacticalAllocate
    \/ TacticalStopIteration
    \/ TacticalReturn
    \/ TacticalKeyError

TacticalSpec == TacticalInit /\ [][TacticalNext]_vars

---------------------------------------------------------------------------
(* Properties of closed_loop (checked under Spec)                          *)

\* the trajectories closed_loop keeps of the plant
Trajectories == {"mS", "mV", "mDV", "mA", "mX"}

\* every entry of a control row lies in [U_MIN, U_MAX]
InRange(row) == \A j \in Veh : U_MIN <= row[j] /\ row[j] <= U_MAX

\* the U_star of the last iteration of the call that has just run
LastControl == trace[Len(trace)]

\* C1: every control that compute_control returns and closed_loop applies
\* comes from an iterate whose error is at most EPS; a call that uses up
\* the step iterator with error > EPS returns no control.
C1_ReturnedControlConverged ==
    (pc = "loop" /\ i > 0) => sol.error <= EPS

\* C2: an error above the blow-up threshold aborts the call: the
\* AssertionError leaves compute_control and closed_loop, nothing runs
\* after it, no control is returned, and the plant rows i + 1 and the
\* control row i of that step stay as they were created.
C2_BlowUpAborts ==
    /\ sol.error > BLOWUP * SCALE => pc = "raised"
    /\ pc = "raised" =>
        /\ sol.raised # "no"
        /\ ~ ENABLED Next
        /\ \A a \in {"mS", "mV", "mDV", "mA"} : mem[a][i + 1] = ZeroRow
        /\ \A j \in Veh : mem["mX"][i + 1][j] \in Uninitialized
        /\ mem["mU"][i] = ZeroRow
        /\ ret = (IF i = 0 THEN ZeroRow ELSE mem["mU"][i - 1])

\* the blow-up aborts the second step of closed_loop, after a first step
\* that was applied
C2_Witness ==
    /\ pc = "raised"
    /\ i = 1
    /\ sol.error > BLOWUP * SCALE
    /\ mem["mS"][1] # ZeroRow

\* C4: every entry of the candidate control of every iteration lies in
\* [U_MIN, U_MAX], and so does every returned control and every row of mU.
C4_ControlWithinBounds ==
    /\ \A r \in DOMAIN sol.U_star : InRange(sol.U_star[r])
    /\ \A k \in 1 .. Len(trace) : \A r \in DOMAIN trace[k] : InRange(trace[k][r])
    /\ InRange(ret)
    /\ \A r \in Rows : InRange(mem["mU"][r])

\* a control at the bound has been applied, and the costate of the call
\* asks for more than the bound
C4_Witness ==
    /\ pc = "loop"
    /\ i > 0
    /\ \E j \in Veh :
        /\ mem["mU"][i - 1][j] \in {U_MIN, U_MAX}
        /\ Abs(RawControl(IF sol.kind = "3rd" THEN sol.LA[0][j] ELSE sol.LV[0][j],
                          sol.kind, sol.lag)) > U_MAX

\* C5: no step of a compute_control call (its entry, an iteration, the
\* StopIteration pass) changes a row of mS, mV, mDV, mA or mX, with or
\* without noise and delay.
C5_SolverLeavesTrajectories ==
    [][(pc' = "solve" \/ pc' = "raised")
        => \A a \in Trajectories : mem'[a] = mem[a]]_vars

\* a call on a noisy measurement at the second step has iterated twice and
\* its own spacing row 0 is not the plant's row
C5_Witness ==
    /\ pc = "solve"
    /\ ev.ns
    /\ i = 1
    /\ sol.step >= 2
    /\ mem["m_S"][0] # mem["mS"][i]
    /\ mem["m_S"][1] # ZeroRow

\* C6: a 3rd-order scenario with delay enabled and a negative d never gets
\* as far as a solve.
C6_NegativeDelayRejected ==
    (ev.kind = "3rd" /\ ev.delay /\ ev.d < 0) => (pc = "loop" /\ i = 0)

\* C7: with delay d >= 0 the state handed to the solver at step i is the
\* plant row i - d, a row already written (0 <= i - d <= i), and the
\* reference window starts at row i.
C7_DelayedRowAlreadyWritten ==
    (pc = "solve" /\ ev.kind = "3rd" /\ ev.delay /\ ev.d >= 0) =>
        /\ 0 <= i - ev.d
        /\ i - ev.d <= i
        /\ \A f \in {"S", "V", "DV", "A"} : aX[f].kind = "view" /\ aX[f].off = i - ev.d
        /\ sol.Ref = Window(mRef, i)

C15_SpeedWithinBounds ==
    /\ \A r \in Rows : InRange(mem["mV"][r])
    /\ pc = "solve" => \A r \in DOMAIN mem["m_V"] : InRange(mem["m_V"][r])

\* C16: at step i the reference window is the rows i .. i + min(H,
\* nSamples - i) - 1 of mRef, and every horizon row j that the backward
\* pass pairs with a reference row is paired with row i + j of mRef, a row
\* of the matrix.
C16_WindowAligned ==
    pc = "solve" =>
        /\ NRows(sol.Ref) = Min2(H, nSamples - i)
        /\ \A r \in DOMAIN sol.Ref : sol.Ref[r] = mRef[i + r]
        /\ \A k \in 0 .. (Min2(sol.X.S.len, NRows(sol.Ref)) - 1) :
            /\ i + (sol.X.S.len - 1 - k) \in Rows
            /\ PairedRef(sol.Ref, k) = mRef[i + (sol.X.S.len - 1 - k)]

\* C19: when a compute_control call starts, row 0 of its S, V, DV and (3rd
\* order) A arrays is the spacing, speed, relative speed and acceleration it
\* was given, every other row of them is zero, and the costates are zero.
C19_FreshArrays ==
    (pc = "solve" /\ sol.step = 0 /\ sol.passes = 0) =>
        /\ mem["m_S"][0] = Deref(mem, aX.S)
        /\ mem["m_V"][0] = Deref(mem, aX.V)
        /\ mem["m_DV"][0] = Deref(mem, aX.DV)
        /\ ev.kind = "3rd" => mem["m_A"][0] = Deref(mem, aX.A)
        /\ \A a \in SolverArrays : \A r \in 1 .. (H - 1) : mem[a][r] = ZeroRow
        /\ sol.LS = Zeros(H)
        /\ sol.LV = Zeros(H)
        /\ sol.LA = Zeros(H)

---------------------------------------------------------------------------
(* Properties of compute_control (checked under SolverSpec)                *)

\* C3: a call of compute_control ends.  The while loop makes at most N + 1
\* passes and runs its body in at most N of them (N_ITER, N_ITER_CF); the
\* loop is left with error <= EPS or with the step iterator used up, or an
\* AssertionError aborts the call.
C3_SolverTerminates ==
    /\ sol.step <= (IF sol.kind = "cf" THEN N_ITER_CF ELSE N_ITER)
    /\ sol.passes <= (IF sol.kind = "cf" THEN N_ITER_CF ELSE N_ITER) + 1
    /\ sol.step <= sol.passes
    /\ (pc = "solve" /\ ~ LoopCondition(sol)) \/ (hist # << >> /\ pc \in {"call", "returned"})
        => \/ sol.error <= EPS
           \/ /\ sol.step = (IF sol.kind = "cf" THEN N_ITER_CF ELSE N_ITER)
              /\ sol.passes = sol.step + 1
    /\ pc = "raised" => sol.raised # "no"

\* a call of contfunc.compute_control has returned after the step iterator
\* ran out, the error still above EPS
C3_Witness ==
    /\ pc = "returned"
    /\ sol.kind = "cf"
    /\ sol.step = N_ITER_CF
    /\ sol.passes = N_ITER_CF + 1
    /\ sol.error > EPS

Equilibrium ==
    /\ ev.kind \in {"2nd", "3rd"}
    /\ \A r \in DOMAIN mRef : mRef[r] = mRef[0]
    /\ \A j \in Veh :
        /\ aX.S.val[j] = MulFix(aX.V.val[j], mRef[0][j]) + L_AVG
        /\ aX.DV.val[j] = 0
        /\ aX.A.val[j] = 0

\* C9: from an equilibrium the call converges (error <= EPS, no abort),
\* every candidate control is zero in every horizon row, and the returned
\* control is the zero vector.
C9_EquilibriumFixedPoint ==
    Equilibrium =>
        /\ pc # "raised"
        /\ sol.step >= 1 => sol.error <= EPS
        /\ \A k \in 1 .. Len(trace) : trace[k] = Zeros(H)
        /\ \A k \in 1 .. Len(hist) : hist[k].ret = ZeroRow

\* a call from an equilibrium at half the platoon speed has returned twice
C9_Witness ==
    /\ Equilibrium
    /\ pc = "returned"
    /\ Len(hist) = 2
    /\ sol.step >= 1
    /\ aX.V.val[0] = V_P \div 2

---------------------------------------------------------------------------
(* Properties of compute_parameters (checked under ParamSpec)              *)

\* C14: compute_parameters either raises the division error or returns
\* (s_x, k_x, k_c, w) with k_x, k_c and w all strictly positive.
C14_WaveSpeedPositive ==
    wave.out # << >> =>
        /\ wave.out[2] > 0
        /\ wave.out[3] > 0
        /\ wave.out[4] > 0

---------------------------------------------------------------------------
(* Properties of solve_tactical_problem (checked under TacticalSpec)       *)

\* the snapshot holds a boundary vehicle: an HDV or the vehicle 0
HasBoundary ==
    \E k \in DOMAIN tac.lVehDataFormat :
        tac.lVehDataFormat[k].id = 0 \/ tac.lVehDataFormat[k].type = "HDV"

\* the CAVs of the snapshot, by their place in it
SnapshotCavs == {k \in DOMAIN tac.lVehDataFormat : tac.lVehDataFormat[k].type = "CAV"}

\* the places of newProjSort that follow the k-th boundary and come before
\* the next one: the vehicles allocated to the k-th segment
Segment(k) ==
    {p \in DOMAIN tac.newProjSort :
        /\ ~ tac.lProj[tac.newProjSort[p]].bound
        /\ \E q \in 1 .. (p - 1) :
            /\ tac.newProjSort[q] = tac.lBound[k]
            /\ \A u \in (q + 1) .. p : ~ tac.lProj[tac.newProjSort[u]].bound}

\* C11: a call on a snapshot with a boundary vehicle raises nothing; the
\* counts of the segments are non-negative and sum to the number of
\* allocatable CAVs; when the call returns, every allocatable CAV stands in
\* exactly one segment, every bounded segment holds its count, the others
\* are in the last one, and d_ev has one event for every CAV.
C11_EveryCavAllocated ==
    HasBoundary =>
        /\ pc # "raised"
        /\ pc \in {"alloc", "returned"} =>
            /\ \A k \in DOMAIN tac.lNumVehAlloc : tac.lNumVehAlloc[k] >= 0
            /\ SumSeq(tac.lNumVehAlloc) = Len(tac.lVehAlloc)
        /\ pc = "returned" =>
            /\ \A c \in DOMAIN tac.lVehAlloc :
                Cardinality({k \in DOMAIN tac.lBound :
                                \E p \in Segment(k) :
                                    tac.newProjSort[p] = tac.lVehAlloc[c]}) = 1
            /\ \A k \in DOMAIN tac.lBound :
                Cardinality(Segment(k)) = tac.lNumVehAlloc[k]
            /\ Cardinality(DOMAIN tac.d_ev) = Cardinality(SnapshotCavs)

\* the capacity of the segment between the k-th boundary and the next,
\* from the projected times of the two and the headway of the k-th
SegmentCapacity(k) ==
    LET lead == tac.lProj[tac.lBound[k]]
        gap == tac.lProj[tac.lBound[k + 1]].pg[2] - lead.pg[2]
        room == gap - (lead.tau + SAFETY * GHDV)
    IN  IF room < 0 /\ room % GCAV # 0
        THEN Max2(- ((- room) \div GCAV), 0)
        ELSE Max2((room \div GCAV) + 1, 0)

C13_NoBoundarySingleSegment ==
    ~ HasBoundary =>
        /\ pc # "raised"
        /\ pc = "returned" =>
            /\ \A k \in SnapshotCavs : tac.lProj[k].upd
            /\ \A k \in SnapshotCavs :
                \E t \in DOMAIN tac.d_ev : tac.d_ev[t][1] = tac.lProj[k].id

---------------------------------------------------------------------------
(* Properties of the iteration (checked under SolverSpec)                  *)

\* C17: once n + n_prev has passed the absolute ceiling (N_ABS, N_ABS_CF)
\* with the error still above EPS, the call has been aborted with 'Maximum
\* iterations reached by the algorithm'.
C17_CeilingAborts ==
    (sol.n + sol.n_prev > (IF sol.kind = "cf" THEN N_ABS_CF ELSE N_ABS)
     /\ sol.error > EPS)
        => (pc = "raised"
            /\ sol.raised = "Maximum iterations reached by the algorithm")

\* C18: in every iteration that a call completes, ALPHA changes only if n
\* has reached the block size (N_BLOCK, N_BLOCK_CF): it is then lowered by
\* ALPHA_STEP but not below ALPHA_FLOOR, n is added to n_prev and starts
\* again; otherwise ALPHA and n_prev stay and n grows by one.  So ALPHA
\* never grows, stays within [ALPHA_FLOOR, ALPHA_INIT], and n + n_prev is
\* the number of iterations completed.
C18_RelaxationSchedule ==
    [][(pc = "solve" /\ pc' = "solve" /\ sol'.step = sol.step + 1) =>
        /\ sol'.ALPHA <= sol.ALPHA
        /\ ALPHA_FLOOR <= sol'.ALPHA
        /\ sol'.ALPHA <= ALPHA_INIT
        /\ sol'.n + sol'.n_prev = sol'.step
        /\ IF sol.n >= (IF sol.kind = "cf" THEN N_BLOCK_CF ELSE N_BLOCK)
           THEN /\ sol'.ALPHA = (IF sol.ALPHA - ALPHA_STEP < ALPHA_FLOOR
                                 THEN ALPHA_FLOOR ELSE sol.ALPHA - ALPHA_STEP)
                /\ sol'.n_prev = sol.n_prev + sol.n
                /\ sol'.n = 1
           ELSE /\ sol'.ALPHA = sol.ALPHA
                /\ sol'.n_prev = sol.n_prev
                /\ sol'.n = sol.n + 1]_vars

\* an operational call has gone past its first block: ALPHA has been
\* lowered to the floor and the block is held in n_prev
C18_Witness ==
    /\ pc = "solve"
    /\ sol.kind = "2nd"
    /\ sol.ALPHA = ALPHA_FLOOR
    /\ sol.n_prev = N_BLOCK
    /\ sol.n >= 2

\* C20: during a solve the last horizon row of the relaxed costates Ls, Lv,
\* La is zero, so is the last row of the costates ls, lv, la that a backward
\* pass on the arrays computes, and so is the last row of every U_star.
C20_TerminalCostateZero ==
    pc = "solve" =>
        /\ sol.LS[sol.X.S.len - 1] = ZeroRow
        /\ sol.LV[sol.X.S.len - 1] = ZeroRow
        /\ sol.LA[sol.X.S.len - 1] = ZeroRow
        /\ \A f \in {"ls", "lv", "la"} :
            backward_evolution(mem, sol.X, sol.Ref, sol.kind, sol.lag)[f][sol.X.S.len - 1]
                = ZeroRow
        /\ \A k \in 1 .. Len(trace) : trace[k][sol.X.S.len - 1] = ZeroRow

\* a 3rd-order call has iterated twice; its costates are not zero in the
\* rows before the last
C20_Witness ==
    /\ pc = "solve"
    /\ sol.kind = "3rd"
    /\ sol.step >= 2
    /\ sol.LV[H - 2] # ZeroRow
    /\ sol.LA[0] # ZeroRow
    /\ trace[Len(trace)][0] # ZeroRow

---------------------------------------------------------------------------
(* Properties of the plant update and the forward pass (checked under Spec) *)

\* DT times (the leader's value - the follower's own value), the values
\* being the row x of controls or of accelerations
FollowerGain(x, j) == Q(x[j - 1] - x[j], DT_NUM, DT_DEN)

\* the rows of DV from row 0 to row last follow the law of C21, the row
\* that drives row r + 1 being drive[r]
LeaderLaw(DV, drive, last) ==
    /\ \A r \in 0 .. (last - 1) :
        /\ DV[r + 1][0] = DV[r][0]
        /\ \A j \in Veh \ {0} : DV[r + 1][j] - DV[r][j] = FollowerGain(drive[r], j)
    /\ \A r \in 0 .. last : DV[r][0] = DV[0][0]

\* C21: in the plant update of closed_loop and in the forward pass of the
\* solver, the relative speed of a vehicle j >= 1 grows in one step by DT
\* times (the control of vehicle j - 1 - its own control) in the 2nd-order
\* script, and by DT times the same difference of the accelerations in the
\* 3rd-order script; the relative speed of vehicle 0 does not change, so it
\* is the initial one in every plant row and in every horizon row.
C21_RelativeSpeedIncrement ==
    /\ LeaderLaw(mem["mDV"], IF ev.kind = "3rd" THEN mem["mA"] ELSE mem["mU"], i)
    /\ \A r \in Rows : mem["mDV"][r][0] = mem["mDV"][0][0]
    /\ trace # << >> =>
        LeaderLaw(mem["m_DV"], IF sol.kind = "3rd" THEN mem["m_A"] ELSE sol.U_star, H - 1)

\* two steps of the 3rd-order plant have been applied; in the second one the
\* root had an acceleration of its own and its follower's relative speed has
\* moved; in the last forward pass the root accelerates and the follower's
\* relative speed moves too
C21_Witness ==
    /\ pc = "loop"
    /\ ev.kind = "3rd"
    /\ i = 2
    /\ mem["mA"][1][0] # 0
    /\ mem["mDV"][2][1] # mem["mDV"][1][1]
    /\ mem["m_A"][H - 2][0] # 0
    /\ mem["m_DV"][H - 1][1] # mem["m_DV"][0][1]

---------------------------------------------------------------------------
(* Properties of the equilibria of solve_tactical_problem (checked under   *)
(* TacticalSpec)                                                           *)

\* the equilibrium point due to the vehicle at place p >= 2 of newProjSort:
\* the point of the vehicle placed before it (the projection of a boundary,
\* the equilibrium point of a CAV) moved back by that vehicle's desired
\* spacing and on by that vehicle's time headway
ChainedEquilibrium(p) ==
    LET pred == tac.lProj[tac.newProjSort[p - 1]]
        from == IF pred.bound THEN pred.pg ELSE pred.pg_eq
    IN  <<from[1] - pred.d, from[2] + pred.tau>>

\* C22: in a segment the equilibrium point of the first CAV is the
\* projection of the boundary shifted by the boundary's desired spacing and
\* time headway, and the equilibrium point of every later CAV is that of
\* the CAV allocated just before it shifted by that CAV's desired spacing
\* and time headway.
C22_ChainedToPredecessor ==
    pc \in {"alloc", "returned"} =>
        \A p \in 2 .. Len(tac.newProjSort) :
            ~ tac.lProj[tac.newProjSort[p]].bound =>
                tac.lProj[tac.newProjSort[p]].pg_eq = ChainedEquilibrium(p)

\* T1 + (VF+W)/E * (1/VF - 1/E) * d_tau - t_ant for the vehicle x: the yield
\* time that goes with the anticipation time t_ant
YieldAfterAnticipation(x, d_tau, t_ant) ==
    (x.ti + Q(X_M * SCALE - x.abs, 1, VF_INT))
    + Q(d_tau,
        (VF_INT * W_DEN + W_NUM) * E_DEN * (E_NUM - VF_INT * E_DEN),
        W_DEN * E_NUM * VF_INT * E_NUM)
    - t_ant

\* C23: the two times find_anticipation_time returns for a vehicle and a
\* headway change d_tau satisfy T_yield = T1 + (VF+W)/E * (1/VF - 1/E) *
\* d_tau - T_anticipation, T1 the time at which the vehicle reaches the
\* position 0.  The times are compared to the last two digits of the
\* fixed point.
C23_YieldFromAnticipation ==
    pc \in {"alloc", "returned"} =>
        \A k \in DOMAIN tac.lProj :
            tac.lProj[k].upd =>
                Abs(tac.lProj[k].t_yld
                    - YieldAfterAnticipation(tac.lProj[k], tac.lProj[k].d_tau,
                                             tac.lProj[k].t_ant)) < 100

---------------------------------------------------------------------------
(* Properties of the plant of closed_loop (checked under Spec)             *)

\* C24: in the 3rd-order closed_loop the lag of the plant, real_lag =
\* control_lag + par_unc_const + par_unc_rnd, is strictly positive whenever
\* a call is made with it and whenever the plant has been advanced with it;
\* a step whose real_lag is zero or negative is rejected.
C24_PlantLagPositive ==
    (ev.kind = "3rd" /\ (pc = "solve" \/ (pc \in {"loop", "done"} /\ i > 0))) =>
        real_lag > 0

\* row r of the trajectory a is the same before and after a step
RowKept(a, r) == mem'[a][r] = mem[a][r]

\* the rows at + 1 that a step leaves are those the plant equations give
\* from the rows at and the control row at the step stores
RowsFromRow(at) ==
    /\ mem'["mS"][at + 1] =
        [j \in Veh |-> mem["mS"][at][j] + Q(mem["mDV"][at][j], DT_NUM, DT_DEN)]
    /\ mem'["mV"][at + 1] =
        [j \in Veh |-> mem["mV"][at][j]
            + Q(IF ev.kind = "3rd" THEN mem["mA"][at][j] ELSE mem'["mU"][at][j],
                DT_NUM, DT_DEN)]
    /\ mem'["mDV"][at + 1][0] = mem["mDV"][at][0]
    /\ \A j \in Veh \ {0} :
        mem'["mDV"][at + 1][j] =
            mem["mDV"][at][j]
            + FollowerGain(IF ev.kind = "3rd" THEN mem["mA"][at] ELSE mem'["mU"][at], j)
    /\ mem'["mX"][at + 1] =
        [j \in Veh |-> mem["mX"][at][j] + Q(mem["mV"][at][j], DT_NUM, DT_DEN)
            + Q(mem'["mU"][at][j], DT_NUM * DT_NUM, 2 * DT_DEN * DT_DEN)]

\* C25: the steps of closed_loop run in the order i = 0 .. nSamples - 3.
\* Step i writes the rows i + 1 of mS, mV, mDV, mA and mX and the row i of
\* mU, from the rows i; it changes no other row of them, and nothing else
\* that runs changes any row: a row once written is never written again.
C25_RowsWrittenOnce ==
    [][/\ i' \in {i, i + 1}
       /\ i' = i => \A a \in Trajectories \cup {"mU"} : mem'[a] = mem[a]
       /\ i' = i + 1 =>
            /\ i \in 0 .. (nSamples - 3)
            /\ \A a \in Trajectories : \A r \in Rows \ {i + 1} : RowKept(a, r)
            /\ \A r \in Rows \ {i} : RowKept("mU", r)
            /\ \A a \in {"mS", "mV", "mDV", "mA"} : mem[a][i + 1] = ZeroRow
            /\ mem["mU"][i] = ZeroRow
            /\ RowsFromRow(i)]_vars

\* every step of closed_loop has run: the rows 1 .. nSamples - 2 are
\* written and differ from each other, the controls are stored, and the
\* last row is as it was created
C25_Witness ==
    /\ pc = "done"
    /\ i = nSamples - 2
    /\ \A r \in 0 .. (nSamples - 3) : mem["mU"][r] # ZeroRow
    /\ \A r \in 0 .. (nSamples - 3) :
        mem["mV"][r + 1] # mem["mV"][r] /\ mem["mS"][r + 1] # ZeroRow
    /\ \A a \in {"mS", "mV", "mDV", "mA"} : mem[a][nSamples - 1] = ZeroRow

\* in row r of the arrays V and DV every follower's relative speed is its
\* leader's speed less its own, to within slack units of the fixed point
SpeedsConsistent(V, DV, r, slack) ==
    \A j \in Veh \ {0} : Abs(DV[r][j] - (V[r][j - 1] - V[r][j])) <= slack

\* C26: in the 2nd-order script, from the initial condition of closed_loop
\* (equal speeds, relative speeds zero) on, every follower j >= 1 has
\* DV[j] = V[j-1] - V[j] in every row of the plant and, during a call, in
\* every horizon row of the solver, whatever the controls.  Each step
\* rounds the two sides separately, by at most one unit of the fixed
\* point, so row r of the plant is compared to within r units and horizon
\* row r of a call at step i to within i + r units.
C26_RelativeSpeedConsistent ==
    ev.kind = "2nd" =>
        /\ \A r \in Rows : SpeedsConsistent(mem["mV"], mem["mDV"], r, r)
        /\ pc = "solve" =>
            \A r \in 0 .. (H - 1) : SpeedsConsistent(mem["m_V"], mem["m_DV"], r, i + r)

\* both steps of the 2nd-order plant have been applied with controls that
\* differ between the vehicles, the speeds have moved apart, and so have
\* those of the last horizon row of the call that ran
C26_Witness ==
    /\ ev.kind = "2nd"
    /\ pc = "loop"
    /\ i = 2
    /\ mem["mU"][0][0] # mem["mU"][0][1]
    /\ mem["mU"][1][0] # mem["mU"][1][1]
    /\ mem["mDV"][2][1] # 0
    /\ mem["mV"][2][0] # mem["mV"][2][1]
    /\ mem["m_DV"][H - 1][1] # 0

=============================================================================
